---- MODULE Spec2Model ----
(***************************************************************************)
(* Model of metafs (src/metafs/metafs.py): Filer.update walks a directory  *)
(* tree and SQLiteFiler records what it observes in an SQLite store.       *)
(*                                                                         *)
(* A path is the sequence of its components: "/data/sub" is                *)
(* <<"/", "data", "sub">>, "/" is <<"/">>, the relative path "data/sub" is  *)
(* <<"data", "sub">>, "" is <<>>, and a trailing slash is a last component  *)
(* "" ("/data/" is <<"/", "data", "">>).  A stamp stands for the triple     *)
(* (st_mtime, st_atime, st_ctime) of one os.stat call, which the code      *)
(* always reads and writes together.                                       *)
(***************************************************************************)
EXTENDS Integers, Sequences, FiniteSets, TLC

VARIABLES
    disk,      \* the regular files on disk: full path -> [content, stamp]
    dirs,      \* the directories on disk: path -> stamp
    db,        \* the committed content of the SQLite store (self.conn)
    hist,      \* history of the calls made so far (for the properties)
    last,      \* the last call of update: its root, its result, the observations
               \* it emitted, whether the disk has changed since, and (prior) the
               \* result of the call before it when that call had the same root
               \* and the disk did not change in between
    fsops,     \* number of file system changes so far
    nupdates,  \* number of update calls so far
    call       \* the last direct call of a store method: what it was given and
               \* what it returned, and (n) the number of such calls so far

vars == <<disk, dirs, db, hist, last, fsops, nupdates, call>>

----------------------------------------------------------------------------
(* Bounds of the model *)

MaxFsOps == 2
MaxUpdates == 2
MaxStamp == 1
MaxKillAt == 24

(* self.max_parse_size, scaled down from its default of 100000000 *)
MaxParseSize == 2

----------------------------------------------------------------------------
(* The file system under test *)

DirSet == { <<"/">>, <<"/", "data">>, <<"/", "data", "sub">>, <<"/", "other">> }

FileNames == {"a.bin", "b.bin"}

\* the order in which os.listdir returns the entries of a directory
ListOrder == <<"a.bin", "b.bin", "data", "other", "sub">>

Contents == {"pe", "txt", "huge"}

\* st_size of a file with the given content
SizeOf(c) ==
    CASE c = "pe"   -> 1
      [] c = "txt"  -> MaxParseSize - 1
      [] c = "huge" -> MaxParseSize
      [] c = "badpe" -> 1

\* hashlib.md5 of the content: one digest per content, no collisions
Md5(c) ==
    CASE c = "pe"   -> "md5:pe"
      [] c = "txt"  -> "md5:txt"
      [] c = "huge" -> "md5:huge"
      [] c = "badpe" -> "md5:badpe"

\* the working directory against which a relative path resolves
Cwd == <<"/">>

isabs(p) == p # <<>> /\ p[1] = "/"

dirname(p) ==
    IF p = <<"/">> \/ p = <<>> THEN p ELSE SubSeq(p, 1, Len(p) - 1)

basename(p) == IF p = <<"/">> \/ p = <<>> THEN "" ELSE p[Len(p)]

join(path, filename) == Append(path, filename)

\* the file system object a path string names: no trailing slash, absolute
Resolve(p) ==
    LET q == IF Len(p) > 1 /\ p[Len(p)] = "" THEN SubSeq(p, 1, Len(p) - 1) ELSE p
    IN  IF isabs(q) THEN q ELSE Cwd \o q

isdir(p) == p # <<>> /\ Resolve(p) \in DOMAIN dirs

isfile(p) == p # <<>> /\ Resolve(p) \in DOMAIN disk

----------------------------------------------------------------------------
(* The SQLite store.  A table with a PRIMARY KEY or UNIQUE column is a set  *)
(* of rows; a table declared without any key is the sequence of its rows,   *)
(* in insertion order.  seq is sqlite_sequence: the largest identifier each *)
(* AUTOINCREMENT table has ever handed out.                                 *)

EmptyDb ==
    [ hashes                |-> {},     \* [id (file_id), value (hash)]
      paths                 |-> {},     \* [path_id, path, stamp]
      files                 |-> {},     \* [file_id, path_id, filename, magic_id, size, stamp]
      magics                |-> {},     \* [id (magic_id), value (magic)]
      peheaders             |-> {},     \* [file_id, compile_time, petype, subsystem]
      dlls                  |-> {},     \* [id (dll_id), value (name)]
      functions             |-> {},     \* [function_id, name, from_dll_id]
      file_import_dlls      |-> <<>>,   \* [file_id, dll_id]
      file_export_dlls      |-> <<>>,   \* [file_id, dll_id]
      file_export_functions |-> <<>>,   \* [file_id, function_id]
      file_import_functions |-> <<>>,   \* [file_id, function_id]
      sections              |-> <<>>,   \* [file_id, name, size, v_size, entropy]
      version_info_fields   |-> {},     \* [id, value]
      version_info_values   |-> {},     \* [id, value]
      file_version_info     |-> <<>>,   \* [file_id, version_info_field_id, version_info_value_id]
      anomalies             |-> <<>>,   \* [file_id, anomaly]
      seq |-> [hashes |-> 0, paths |-> 0, magics |-> 0, dlls |-> 0, functions |-> 0,
               version_info_fields |-> 0, version_info_values |-> 0] ]

(* One call of update is a run R of the process:                            *)
(*   db    the committed store,                                             *)
(*   kill  whether the process is killed during this run, and then          *)
(*   fuel  the number of commits it still completes before the kill,        *)
(*   commits  the number of commits it has made,                            *)
(*   exc   the exception that has ended the run ("none": still running),    *)
(*   log   the observations emitted so far, in order,                       *)
(*   hist  the history of the calls,                                        *)
(*   ret   the value returned by the last store lookup.                     *)

Alive(R) == R.exc = "none" /\ ~(R.kill /\ R.fuel = 0)

raise(R, e) == IF Alive(R) THEN [R EXCEPT !.exc = e] ELSE R

\* the writes of one transaction followed by self.conn.commit()
commit(R, newdb) ==
    IF Alive(R)
    THEN [R EXCEPT !.db = newdb, !.commits = @ + 1,
                   !.fuel = IF R.kill THEN @ - 1 ELSE @]
    ELSE R

\* a resolver that inserts without looking the value up, into a table whose
\* value column is not UNIQUE
GetOrCreate_insert(R, table, value) ==
    LET id == R.db.seq[table] + 1
        R1 == commit(R, [R.db EXCEPT ![table] = @ \cup {[id |-> id, value |-> value]},
                                     !.seq[table] = id])
    IN  IF ~Alive(R) THEN R ELSE [R1 EXCEPT !.ret = id]

\* the lookup-insert-reread of a table with an AUTOINCREMENT id and a UNIQUE value
GetOrCreate(R, table, value) ==
    LET found == {r \in R.db[table] : r.value = value}
        id    == R.db.seq[table] + 1
        R1    == commit(R, [R.db EXCEPT ![table] = @ \cup {[id |-> id, value |-> value]},
                                        !.seq[table] = id])
    IN  IF ~Alive(R) THEN R
        ELSE IF found # {} THEN [R EXCEPT !.ret = (CHOOSE r \in found : TRUE).id]
        ELSE [R1 EXCEPT !.ret = id]

get_file_id(R, file_hash) == GetOrCreate(R, "hashes", file_hash)

get_dll_id(R, dll_name) == GetOrCreate(R, "dlls", dll_name)

get_magic_id(R, file_type) == GetOrCreate(R, "magics", file_type)

get_version_info_field_id(R, version_info_field) ==
    GetOrCreate(R, "version_info_fields", version_info_field)

get_version_info_value_id(R, version_info_value) ==
    GetOrCreate(R, "version_info_values", version_info_value)

\* functions.name alone is UNIQUE and alone is looked up
get_function_id(R, function_name, dll_id) ==
    LET found == {r \in R.db.functions : r.name = function_name}
        id    == R.db.seq.functions + 1
        R1    == commit(R, [R.db EXCEPT
                     !.functions = @ \cup {[function_id |-> id, name |-> function_name,
                                            from_dll_id |-> dll_id]},
                     !.seq.functions = id])
    IN  IF ~Alive(R) THEN R
        ELSE IF found # {} THEN [R EXCEPT !.ret = (CHOOSE r \in found : TRUE).function_id]
        ELSE [R1 EXCEPT !.ret = id]

\* fetchone() is None when no row has the path, and None[0] raises TypeError
get_path_id(R, path) ==
    LET found == {r \in R.db.paths : r.path = path}
    IN  IF ~Alive(R) THEN R
        ELSE IF found = {} THEN raise(R, "TypeError")
        ELSE [R EXCEPT !.ret = (CHOOSE r \in found : TRUE).path_id]

\* a store that never recognises a digest (Filer._check_meta_entry: return False)
check_meta_entry_never(R, file_hash) == 0

check_meta_entry(R, file_hash) ==
    Cardinality({r \in R.db.hashes : r.value = file_hash})

\* REPLACE INTO paths on a schema whose files.path_id is declared
\* REFERENCES paths ON DELETE CASCADE
update_dir_entry_cascade(R, path, stamp) ==
    LET id == R.db.seq.paths + 1
        old == {r.path_id : r \in {q \in R.db.paths : q.path = path}}
    IN  commit(R, [R.db EXCEPT
            !.paths = {r \in @ : r.path # path}
                        \cup {[path_id |-> id, path |-> path, stamp |-> stamp]},
            !.files = {f \in @ : f.path_id \notin old},
            !.seq.paths = id])

\* REPLACE INTO paths: the row holding the UNIQUE path is deleted and a new
\* row is inserted, which takes the next AUTOINCREMENT path_id
update_dir_entry(R, path, stamp) ==
    LET id == R.db.seq.paths + 1
    IN  commit(R, [R.db EXCEPT
            !.paths = {r \in @ : r.path # path}
                        \cup {[path_id |-> id, path |-> path, stamp |-> stamp]},
            !.seq.paths = id])

\* Python's None, where the code tests for it
None == "None"

\* update_file_entry writing the whole row (REPLACE INTO files) also when
\* file_type is None
update_file_entry_replace(R, file_hash, path, filename, file_type, size, stamp) ==
    LET R1 == get_file_id(R, file_hash)
        R2 == get_path_id(R1, path)
        R3 == get_magic_id(R2, file_type)
        row == [file_id |-> R1.ret, path_id |-> R2.ret, filename |-> filename,
                magic_id |-> R3.ret, size |-> size, stamp |-> stamp]
    IN  commit(R3, [R3.db EXCEPT !.files =
            {r \in @ : ~(r.file_id = row.file_id /\ r.path_id = row.path_id)} \cup {row}])

\* REPLACE INTO files replaces the row with the same PRIMARY KEY (file_id, path_id);
\* UPDATE files changes the rows the WHERE clause selects, if any
update_file_entry(R, file_hash, path, filename, file_type, size, stamp) ==
    LET R1 == get_file_id(R, file_hash)
        R2 == get_path_id(R1, path)
        R3 == get_magic_id(R2, file_type)
        file_id == R1.ret
        path_id == R2.ret
        magic_id == R3.ret
        row == [file_id |-> file_id, path_id |-> path_id, filename |-> filename,
                magic_id |-> magic_id, size |-> size, stamp |-> stamp]
    IN  IF file_type # None
        THEN commit(R3, [R3.db EXCEPT !.files =
                 {r \in @ : ~(r.file_id = file_id /\ r.path_id = path_id)} \cup {row}])
        ELSE commit(R2, [R2.db EXCEPT !.files =
                 {IF r.file_id = file_id /\ r.path_id = path_id
                  THEN [r EXCEPT !.stamp = stamp] ELSE r : r \in @}])

----------------------------------------------------------------------------
(* The metadata ingestor.  The name of a function is the sequence of its    *)
(* parts (<<"Sleep">>); <<>> is a missing (None or empty) name.  An absent  *)
(* dictionary (None) is <<>> and a present one is <<record>>.               *)

HexDigit == <<"0", "1", "2", "3", "4", "5", "6", "7", "8", "9",
              "a", "b", "c", "d", "e", "f">>

RECURSIVE HexDigits(_, _)
\* the hexadecimal digits of n, padded with zeros to at least width digits
HexDigits(n, width) ==
    IF n = 0 /\ width <= 0 THEN <<>>
    ELSE Append(HexDigits(n \div 16, width - 1), HexDigit[(n % 16) + 1])

\* a fallback name that does not depend on the ordinal
OrdinalName_fixed(ordinal) == <<"0x", "0", "0", "0", "0">>

\* "0x%0.4x" % ordinal
OrdinalName(ordinal) == <<"0x">> \o HexDigits(ordinal, 4)

\* function.get("name") or "0x%0.4x" % function.get("ordinal")
FunctionName(function) ==
    IF function.name # <<>> THEN function.name ELSE OrdinalName(function.ordinal)

\* value or ""
OrEmpty(value) == IF value = None THEN "" ELSE value

\* cursor.executemany("INSERT OR IGNORE ..."): the tables written this way
\* declare no PRIMARY KEY and no UNIQUE column, so no row ever conflicts
InsertOrIgnore(table, rows) == table \o rows

RECURSIVE ExportFunctions(_, _, _, _, _)
\* the loop over exports["functions"]; R.ret ends as the rows to insert
ExportFunctions(R, file_id, dll_id, functions, rows) ==
    IF functions = <<>> THEN [R EXCEPT !.ret = rows]
    ELSE LET R1 == get_function_id(R, FunctionName(Head(functions)), dll_id)
         IN  ExportFunctions(R1, file_id, dll_id, Tail(functions),
                 Append(rows, [file_id |-> file_id, function_id |-> R1.ret]))

insert_pe_exports(R, file_id, exports) ==
    IF exports = <<>> THEN R
    ELSE LET dll_name == OrEmpty(exports[1].dll_name)
             R1 == get_dll_id(R, dll_name)
             dll_id == R1.ret
             R2 == ExportFunctions(R1, file_id, dll_id, exports[1].functions, <<>>)
         IN  commit(R2, [R2.db EXCEPT
                 !.file_export_dlls =
                     InsertOrIgnore(@, <<[file_id |-> file_id, dll_id |-> dll_id]>>),
                 !.file_export_functions = InsertOrIgnore(@, R2.ret)])

RECURSIVE ImportDlls(_, _, _, _, _)
\* the loop over the imported libraries and, inside it, over their functions;
\* R.ret ends as the pair of row lists to insert
ImportDlls(R, file_id, imports, dll_rows, function_rows) ==
    IF imports = <<>> THEN [R EXCEPT !.ret = <<dll_rows, function_rows>>]
    ELSE LET R1 == get_dll_id(R, Head(imports).dll_name)
             dll_id == R1.ret
             R2 == ExportFunctions(R1, file_id, dll_id, Head(imports).functions,
                                   function_rows)
         IN  ImportDlls(R2, file_id, Tail(imports),
                 Append(dll_rows, [file_id |-> file_id, dll_id |-> dll_id]), R2.ret)

insert_pe_imports(R, file_id, imports) ==
    IF imports = <<>> THEN R
    ELSE LET R1 == ImportDlls(R, file_id, imports, <<>>, <<>>)
         IN  commit(R1, [R1.db EXCEPT
                 !.file_import_dlls = InsertOrIgnore(@, R1.ret[1]),
                 !.file_import_functions = InsertOrIgnore(@, R1.ret[2])])

RECURSIVE VersionInfoRows(_, _, _, _)
VersionInfoRows(R, file_id, version_info, rows) ==
    IF version_info = <<>> THEN [R EXCEPT !.ret = rows]
    ELSE LET R1 == get_version_info_field_id(R, Head(version_info).field)
             R2 == get_version_info_value_id(R1, OrEmpty(Head(version_info).value))
         IN  VersionInfoRows(R2, file_id, Tail(version_info),
                 Append(rows, [file_id |-> file_id,
                               version_info_field_id |-> R1.ret,
                               version_info_value_id |-> R2.ret]))

insert_pe_version_info(R, file_id, version_info) ==
    IF version_info = <<>> THEN R
    ELSE LET R1 == VersionInfoRows(R, file_id, version_info, <<>>)
         IN  commit(R1, [R1.db EXCEPT !.file_version_info = InsertOrIgnore(@, R1.ret)])

insert_pe_sections(R, file_id, sections) ==
    IF sections = <<>> THEN R
    ELSE commit(R, [R.db EXCEPT !.sections = InsertOrIgnore(@,
             [i \in 1..Len(sections) |->
                 [file_id |-> file_id, name |-> sections[i].name,
                  size |-> sections[i].size, v_size |-> sections[i].v_size,
                  entropy |-> sections[i].entropy]])])

insert_pe_anomalies(R, file_id, anomalies) ==
    IF anomalies = <<>> THEN R
    ELSE commit(R, [R.db EXCEPT !.anomalies = InsertOrIgnore(@,
             [i \in 1..Len(anomalies) |->
                 [file_id |-> file_id, anomaly |-> anomalies[i]]])])

\* INSERT OR IGNORE INTO peheaders: file_id is the PRIMARY KEY
insert_pe_headers(R, file_id, peheaders) ==
    IF peheaders = <<>> THEN R
    ELSE LET pe == peheaders[1]
             R1 == insert_pe_exports(R, file_id, pe.exports)
             R2 == insert_pe_imports(R1, file_id, pe.imports)
             R3 == insert_pe_version_info(R2, file_id, pe.version_info)
             R4 == insert_pe_sections(R3, file_id, pe.sections)
             R5 == insert_pe_anomalies(R4, file_id, pe.anomalies)
         IN  commit(R5, [R5.db EXCEPT !.peheaders =
                 IF \E r \in @ : r.file_id = file_id THEN @
                 ELSE @ \cup {[file_id |-> file_id, compile_time |-> pe.compile_time,
                               petype |-> pe.petype, subsystem |-> pe.subsystem]}])

\* hist.ingests counts the calls of _insert_meta_entry per digest
insert_meta_entry(R, file_hash, headers) ==
    LET R0 == IF Alive(R)
              THEN [R EXCEPT !.hist.ingests[file_hash] = @ + 1]
              ELSE R
        R1 == get_file_id(R0, file_hash)
    IN  insert_pe_headers(R1, R1.ret, headers)

----------------------------------------------------------------------------
(* The collaborators: python-magic and peparser *)

\* the configurations of self.file_magic the model runs under
MagicModes == {"ok"}

\* self.file_magic with its failures: "none" is no detector (magic.Magic()
\* raised), "raises" a detector whose from_file raises magic.MagicException
FaultModes == {"ok", "none", "raises"}

\* magic.Magic().from_file(fullpath)
from_file(c) ==
    CASE c = "pe"   -> "PE32 executable"
      [] c = "txt"  -> "ASCII text"
      [] c = "huge" -> "data"
      [] c = "badpe" -> "PE32 executable"

\* peparser.PEHeader(fullpath).parse() raises PEFormatError
PEFormatError(c) == c = "badpe"

\* file_type.startswith("PE32")
StartsWithPE32(file_type) == file_type \in {"PE32 executable", "PE32+ executable"}

\* peparser.PEHeader(fullpath).parse(): the record of the one executable content
PEHeader(c) ==
    [ exports |-> << [dll_name |-> None,
                      functions |-> << [name |-> <<>>, ordinal |-> 1],
                                       [name |-> <<>>, ordinal |-> 2] >>] >>,
      imports |-> << [dll_name |-> "kernel32.dll",
                      functions |-> << [name |-> <<"Sleep">>, ordinal |-> 0] >>] >>,
      version_info |-> << [field |-> "CompanyName", value |-> None] >>,
      sections |-> << [name |-> ".text", size |-> 1, v_size |-> 1, entropy |-> 0] >>,
      anomalies |-> << "no checksum" >>,
      compile_time |-> 0, petype |-> "exe", subsystem |-> 2 ]

----------------------------------------------------------------------------
(* Filer: the walk and the protocol of one observation *)

Observation(kind, path, filename) == [kind |-> kind, path |-> path, filename |-> filename]

emit(R, kind, path, filename) ==
    IF Alive(R) THEN [R EXCEPT !.log = Append(@, Observation(kind, path, filename))] ELSE R

\* os.stat raises OSError for a path that names nothing
add_dir_entry(R, path) ==
    LET R0 == emit(R, "dir", path, "")
    IN  IF ~isdir(path) THEN raise(R0, "OSError")
        ELSE update_dir_entry(R0, path, dirs[Resolve(path)])

\* the size test with <= in place of <
BelowParseSize_le(st_size) == st_size <= MaxParseSize

\* stat.st_size < self.max_parse_size
BelowParseSize(st_size) == st_size < MaxParseSize

\* headers = {}, and headers["peheaders"] for a content labelled PE32 that
\* the parser accepts
parse_headers(file_type, c) ==
    IF StartsWithPE32(file_type) /\ ~PEFormatError(c) THEN <<PEHeader(c)>> ELSE <<>>

\* a hashing that never fails
IOError_never(stat) == FALSE

\* self._get_file_hash(fullpath) raises IOError: the file cannot be read
IOError(stat) == ~stat.readable

\* the type label: "Unknown" when there is no detector or when it raises
detect(file_magic, c) ==
    IF file_magic = "none" THEN "Unknown"
    ELSE IF file_magic = "raises" THEN "Unknown"
    ELSE from_file(c)

add_file_entry(R, path, filename) ==
    LET fullpath  == join(path, filename)
        stat      == disk[Resolve(fullpath)]
        st_size   == SizeOf(stat.content)
        file_hash == Md5(stat.content)
        R0        == emit(R, "file", path, filename)
        Rh        == [R0 EXCEPT !.hist.hashed = @ \cup {stat.content}]
        seen      == check_meta_entry(Rh, file_hash) # 0
        file_type == IF seen THEN None ELSE detect(Rh.file_magic, stat.content)
        headers   == parse_headers(file_type, stat.content)
        R1        == IF seen THEN Rh ELSE insert_meta_entry(Rh, file_hash, headers)
    IN  IF ~Alive(R) \/ ~isfile(fullpath) THEN R0
        ELSE IF ~BelowParseSize(st_size) THEN R0
        ELSE IF IOError(stat) THEN R0
        ELSE update_file_entry(R1, file_hash, path, filename, file_type, st_size, stat.stamp)

RECURSIVE os_walk(_)
RECURSIVE WalkDirs(_, _)

\* os.walk(top), top down: the directory, then the walk of each subdirectory
os_walk(top) ==
    LET names     == SelectSeq(ListOrder,
                         LAMBDA n : isdir(join(top, n)) \/ isfile(join(top, n)))
        dirnames  == SelectSeq(names, LAMBDA n : isdir(join(top, n)))
        filenames == SelectSeq(names, LAMBDA n : ~isdir(join(top, n)))
    IN  IF ~isdir(top) THEN <<>>
        ELSE <<[dirpath |-> top, filenames |-> filenames]>> \o WalkDirs(top, dirnames)

WalkDirs(top, dirnames) ==
    IF dirnames = <<>> THEN <<>>
    ELSE os_walk(join(top, Head(dirnames))) \o WalkDirs(top, Tail(dirnames))

RECURSIVE AddFiles(_, _, _)
\* for filename in filenames: self._add_file_entry(dirpath, filename)
AddFiles(R, dirpath, filenames) ==
    IF filenames = <<>> THEN R
    ELSE AddFiles(add_file_entry(R, dirpath, Head(filenames)), dirpath, Tail(filenames))

RECURSIVE WalkLoop(_, _)
\* for (dirpath, dirnames, filenames) in os.walk(root): ...
WalkLoop(R, walk) ==
    IF walk = <<>> THEN R
    ELSE WalkLoop(AddFiles(add_dir_entry(R, Head(walk).dirpath),
                           Head(walk).dirpath, Head(walk).filenames),
                  Tail(walk))

\* update without the test of os.path.isabs
update_any_root(R, root) ==
    IF isdir(root)
    THEN WalkLoop(add_dir_entry(R, dirname(root)), os_walk(dirname(root)))
    ELSE IF isfile(root)
         THEN add_file_entry(R, dirname(root), basename(root))
    ELSE R

\* Filer.update on a platform that does not fold case (sys.platform = "linux2")
update(R, root) ==
    IF ~isabs(root) THEN raise(R, "MetaFSError")
    ELSE IF isdir(root)
         THEN WalkLoop(add_dir_entry(R, dirname(root)), os_walk(dirname(root)))
    ELSE IF isfile(root)
         THEN add_file_entry(R, dirname(root), basename(root))
    ELSE R

----------------------------------------------------------------------------
(* The state machine *)

\* the places where the environment puts files
FileDirs == { <<"/", "data">>, <<"/", "data", "sub">> }

FilePaths == {join(d, n) : d \in FileDirs, n \in FileNames}

\* the arguments update is called with: directories (one with a trailing
\* slash), files, a path that names nothing when no file is there, and a
\* relative path
Roots == { <<"/", "data">>, <<"/", "data", "">>, <<"/", "data", "sub">>,
           <<"/", "data", "a.bin">>, <<"/", "data", "sub", "a.bin">>,
           <<"data", "sub">> }

Min(a, b) == IF a < b THEN a ELSE b

\* the contents of the environment with faults: an executable, and one that
\* libmagic labels as an executable and peparser cannot parse
FaultContents == {"pe", "badpe"}

FaultPaths == { <<"/", "data", "a.bin">>, <<"/", "data", "b.bin">> }

FaultRoots == { <<"/", "data">>, <<"/", "data", "a.bin">> }

NoCall == [n |-> 0, op |-> "none", table |-> "", value |-> "", name |-> <<>>,
           dll_id |-> 0, record |-> "", id |-> 0]

Init ==
    /\ disk = << >>
    /\ dirs = [d \in DirSet |-> 0]
    /\ db = EmptyDb
    /\ hist = [ingests |-> [h \in {Md5(c) : c \in Contents \cup FaultContents} |-> 0],
               hashed |-> {}]
    /\ last = [root |-> <<>>, result |-> "none", prior |-> "none", log |-> <<>>,
               changed |-> FALSE, file_magic |-> "ok"]
    /\ fsops = 0
    /\ nupdates = 0
    /\ call = NoCall

FsStep ==
    /\ fsops < MaxFsOps
    /\ fsops' = fsops + 1
    /\ last' = [last EXCEPT !.changed = TRUE]
    /\ UNCHANGED <<db, hist, nupdates, call>>

CreateFile(p, c) ==
    /\ p \notin DOMAIN disk
    /\ FsStep
    /\ disk' = [q \in DOMAIN disk \cup {p} |->
                   IF q = p THEN [content |-> c, stamp |-> 0, readable |-> TRUE]
                   ELSE disk[q]]
    /\ dirs' = [dirs EXCEPT ![dirname(p)] = Min(@ + 1, MaxStamp)]

TouchFile(p) ==
    /\ p \in DOMAIN disk
    /\ disk[p].stamp < MaxStamp
    /\ FsStep
    /\ disk' = [disk EXCEPT ![p].stamp = @ + 1]
    /\ UNCHANGED dirs

MoveFile(p, d) ==
    /\ p \in DOMAIN disk
    /\ d # dirname(p)
    /\ join(d, basename(p)) \notin DOMAIN disk
    /\ FsStep
    /\ disk' = [q \in (DOMAIN disk \ {p}) \cup {join(d, basename(p))} |->
                   IF q = join(d, basename(p)) THEN disk[p] ELSE disk[q]]
    /\ dirs' = [dirs EXCEPT ![dirname(p)] = Min(@ + 1, MaxStamp),
                            ![d] = Min(@ + 1, MaxStamp)]

Result(R) ==
    IF R.exc # "none" THEN R.exc
    ELSE IF R.kill /\ R.fuel = 0 THEN "killed"
    ELSE "ok"

Run(root, kill, fuel, mode) ==
    update([db |-> db, kill |-> kill, fuel |-> fuel, commits |-> 0, exc |-> "none",
            log |-> <<>>, hist |-> hist, ret |-> 0, file_magic |-> mode], root)

Finish(root, R) ==
    /\ db' = R.db
    /\ hist' = R.hist
    /\ last' = [root |-> root, result |-> Result(R), log |-> R.log, changed |-> FALSE,
                file_magic |-> R.file_magic,
                prior |-> IF last.root = root /\ ~last.changed THEN last.result
                          ELSE "none"]
    /\ nupdates' = nupdates + 1
    /\ UNCHANGED <<disk, dirs, fsops, call>>

\* one call of update(root) that runs to its end
Update(root) ==
    /\ nupdates < MaxUpdates
    /\ \E mode \in MagicModes : Finish(root, Run(root, FALSE, 0, mode))

\* one call of update(root) whose process is killed at any point between two
\* of the commits it would make (or before the first, or after the last)
UpdateKilled(root) ==
    /\ nupdates < MaxUpdates
    /\ \E mode \in MagicModes :
          \E fuel \in 0..Min(Run(root, FALSE, 0, mode).commits, MaxKillAt) :
              Finish(root, Run(root, TRUE, fuel, mode))

FsNext ==
    \/ \E p \in FilePaths, c \in Contents : CreateFile(p, c)
    \/ \E p \in FilePaths : TouchFile(p)
    \/ \E p \in FilePaths, d \in FileDirs : MoveFile(p, d)

Next ==
    \/ FsNext
    \/ \E root \in Roots : Update(root)

Spec == Init /\ [][Next]_vars

NextCrash ==
    \/ FsNext
    \/ \E root \in Roots : Update(root)
    \/ \E root \in Roots : UpdateKilled(root)

\* the same program, whose process may also be killed between two commits
CrashSpec == Init /\ [][NextCrash]_vars

----------------------------------------------------------------------------
(* The environment with faults: files are written with any content, time    *)
(* and permission, files and a directory disappear, and the type detector   *)
(* may be missing or fail.                                                  *)

\* what the environment writes at p: a.bin with or without the permission to
\* read it, b.bin with any time
FaultFiles(p) ==
    IF basename(p) = "a.bin"
    THEN [content : FaultContents, stamp : {0}, readable : BOOLEAN]
    ELSE [content : FaultContents, stamp : 0..MaxStamp, readable : {TRUE}]

\* a file is created, or an existing one is rewritten, touched or chmod-ed
PutFile(p, file) ==
    /\ dirname(p) \in DOMAIN dirs
    /\ p \in DOMAIN disk => disk[p] # file
    /\ FsStep
    /\ disk' = [q \in DOMAIN disk \cup {p} |-> IF q = p THEN file ELSE disk[q]]
    /\ dirs' = IF p \in DOMAIN disk THEN dirs
               ELSE [dirs EXCEPT ![dirname(p)] = Min(@ + 1, MaxStamp)]

RemoveFile(p) ==
    /\ p \in DOMAIN disk
    /\ FsStep
    /\ disk' = [q \in DOMAIN disk \ {p} |-> disk[q]]
    /\ dirs' = [dirs EXCEPT ![dirname(p)] = Min(@ + 1, MaxStamp)]

\* an empty directory is removed
RemoveDir(d) ==
    /\ d \in DOMAIN dirs
    /\ \A q \in DOMAIN disk : dirname(q) # d
    /\ \A e \in DOMAIN dirs : e # d => dirname(e) # d
    /\ FsStep
    /\ dirs' = [e \in DOMAIN dirs \ {d} |->
                   IF e = dirname(d) THEN Min(dirs[e] + 1, MaxStamp) ELSE dirs[e]]
    /\ UNCHANGED disk

\* one call of update(root) of a Filer whose detector is in the given mode
UpdateWith(root, mode) ==
    /\ nupdates < MaxUpdates
    /\ Finish(root, Run(root, FALSE, 0, mode))

NextFault ==
    \/ \E p \in FaultPaths : \E file \in FaultFiles(p) : PutFile(p, file)
    \/ \E p \in FaultPaths : RemoveFile(p)
    \/ RemoveDir(<<"/", "data", "sub">>)
    \/ \E root \in FaultRoots, mode \in FaultModes : UpdateWith(root, mode)

FaultSpec == Init /\ [][NextFault]_vars

----------------------------------------------------------------------------
(* The store's methods called one at a time, as the ingestor calls them:    *)
(* the resolvers on any value, and the ingestion of one header record for a *)
(* digest the store does not know.                                          *)

MaxCalls == 3

ResolverTables == {"hashes", "magics", "dlls", "version_info_fields",
                   "version_info_values"}

\* the digests of the contents whose header record is ingested
IngestHashes == {Md5("pe"), Md5("txt")}

\* the values a resolver is given
ResolverValues(table) ==
    IF table = "hashes" THEN IngestHashes ELSE {"kernel32.dll", ""}

\* the function names and owning libraries _get_function_id is given
ResolverNames == { <<"Sleep">>, OrdinalName(1) }

ResolverDllIds == 1..2

\* the resolver of each dedup table
Resolver(R, table, value) ==
    CASE table = "hashes"              -> get_file_id(R, value)
      [] table = "magics"              -> get_magic_id(R, value)
      [] table = "dlls"                -> get_dll_id(R, value)
      [] table = "version_info_fields" -> get_version_info_field_id(R, value)
      [] table = "version_info_values" -> get_version_info_value_id(R, value)

\* header records peparser can return: one that names a section, an exported
\* function and an anomaly twice and imports one function name from two
\* libraries, and one whose exported and imported functions have no name
PERecords == {"repeats", "ordinals"}

Record(k) ==
    CASE k = "repeats" ->
        [ exports |-> << [dll_name |-> "this.dll",
                          functions |-> << [name |-> <<"Run">>, ordinal |-> 1],
                                           [name |-> <<"Run">>, ordinal |-> 2] >>] >>,
          imports |-> << [dll_name |-> "kernel32.dll",
                          functions |-> << [name |-> <<"Sleep">>, ordinal |-> 0] >>],
                         [dll_name |-> "user32.dll",
                          functions |-> << [name |-> <<"Sleep">>, ordinal |-> 0] >>] >>,
          version_info |-> << [field |-> "CompanyName", value |-> None] >>,
          sections |-> << [name |-> ".text", size |-> 1, v_size |-> 1, entropy |-> 0],
                          [name |-> ".text", size |-> 1, v_size |-> 1, entropy |-> 0] >>,
          anomalies |-> << "no checksum", "no checksum" >>,
          compile_time |-> 0, petype |-> "exe", subsystem |-> 2 ]
      [] k = "ordinals" ->
        [ exports |-> << [dll_name |-> None,
                          functions |-> << [name |-> <<>>, ordinal |-> 1],
                                           [name |-> <<>>, ordinal |-> 2] >>] >>,
          imports |-> << [dll_name |-> "kernel32.dll",
                          functions |-> << [name |-> <<>>, ordinal |-> 1],
                                           [name |-> <<>>, ordinal |-> 26] >>] >>,
          version_info |-> <<>>,
          sections |-> << [name |-> ".text", size |-> 1, v_size |-> 1, entropy |-> 0] >>,
          anomalies |-> <<>>,
          compile_time |-> 0, petype |-> "dll", subsystem |-> 2 ]

\* the run a store method is called in
StoreRun ==
    [db |-> db, kill |-> FALSE, fuel |-> 0, commits |-> 0, exc |-> "none",
     log |-> <<>>, hist |-> hist, ret |-> 0, file_magic |-> "ok"]

\* the method has returned: the store is as it left it and call tells what
\* it was given and what it returned
Returned(R, c) ==
    /\ db' = R.db
    /\ hist' = R.hist
    /\ call' = [c EXCEPT !.n = call.n + 1, !.id = R.ret]
    /\ UNCHANGED <<disk, dirs, last, fsops, nupdates>>

ResolveValue(table, value) ==
    /\ call.n < MaxCalls
    /\ Returned(Resolver(StoreRun, table, value),
                [NoCall EXCEPT !.op = "resolve", !.table = table, !.value = value])

ResolveFunction(function_name, dll_id) ==
    /\ call.n < MaxCalls
    /\ Returned(get_function_id(StoreRun, function_name, dll_id),
                [NoCall EXCEPT !.op = "function", !.table = "functions",
                               !.name = function_name, !.dll_id = dll_id])

\* _add_file_entry ingests a record only for a digest _check_meta_entry
\* does not find
IngestRecord(file_hash, k) ==
    /\ call.n < MaxCalls
    /\ check_meta_entry(StoreRun, file_hash) = 0
    /\ LET R == insert_meta_entry(StoreRun, file_hash, <<Record(k)>>)
       IN  Returned([R EXCEPT !.ret = get_file_id(R, file_hash).ret],
                    [NoCall EXCEPT !.op = "ingest", !.value = file_hash, !.record = k])

NextStore ==
    \/ \E table \in ResolverTables : \E value \in ResolverValues(table) :
          ResolveValue(table, value)
    \/ \E function_name \in ResolverNames, dll_id \in ResolverDllIds :
          ResolveFunction(function_name, dll_id)
    \/ \E file_hash \in IngestHashes, k \in PERecords : IngestRecord(file_hash, k)

StoreSpec == Init /\ [][NextStore]_vars

----------------------------------------------------------------------------
(* What the properties read off a state *)

\* the rows of files that the store d binds to digest h at directory path p
Occurrences(d, h, p) ==
    {f \in d.files :
        /\ \E r \in d.hashes : r.value = h /\ r.id = f.file_id
        /\ \E r \in d.paths : r.path = p /\ r.path_id = f.path_id}

DirObs(log) == {i \in 1..Len(log) : log[i].kind = "dir"}

FileObs(log) == {i \in 1..Len(log) : log[i].kind = "file"}

\* the file on disk that a file observation is about
FileAt(o) == disk[Resolve(join(o.path, o.filename))]

\* the directories at and below r
Subtree(r) == {d \in DOMAIN dirs : Len(d) >= Len(r) /\ SubSeq(d, 1, Len(r)) = r}

\* some call of update has just returned
IsUpdate == nupdates' = nupdates + 1

\* no value of a dedup table is stored in two rows
NoValueTwice(d) ==
    /\ \A t \in {"magics", "dlls", "version_info_fields", "version_info_values", "hashes"} :
          \A a, b \in d[t] : a.value = b.value => a = b
    /\ \A a, b \in d.functions : a.name = b.name => a = b

----------------------------------------------------------------------------
(* C1: after update(root) over a tree in which two distinct directories    *)
(* each hold a regular file below max_parse_size with the same content, the *)
(* store holds exactly one hashes row for that digest, one set of metadata  *)
(* (the digest was ingested once, at most one peheaders row), and one files *)
(* row per path, both referencing that hashes row.                          *)
C1_DedupTwoOccurrences ==
    (last.result = "ok" /\ ~last.changed) =>
        \A i, j \in FileObs(last.log) :
            LET a == last.log[i]
                b == last.log[j]
                h == Md5(FileAt(a).content)
            IN  ( /\ a.path # b.path
                  /\ FileAt(a).content = FileAt(b).content
                  /\ BelowParseSize(SizeOf(FileAt(a).content)) )
                => /\ Cardinality({r \in db.hashes : r.value = h}) = 1
                   /\ hist.ingests[h] = 1
                   /\ Cardinality({r \in db.peheaders :
                          \E x \in db.hashes : x.value = h /\ x.id = r.file_id}) <= 1
                   /\ Cardinality(Occurrences(db, h, a.path)) = 1
                   /\ Cardinality(Occurrences(db, h, b.path)) = 1

(* C2: update(root) run a second time on an unchanged tree adds no row to   *)
(* magics, dlls, functions, version_info_fields or version_info_values,     *)
(* adds no files row, and leaves one paths row per path and the same set of *)
(* paths.                                                                   *)
C2_Idempotence ==
    [][ (IsUpdate /\ last'.prior = "ok" /\ last'.result = "ok") =>
          /\ db'.magics = db.magics
          /\ db'.dlls = db.dlls
          /\ db'.functions = db.functions
          /\ db'.version_info_fields = db.version_info_fields
          /\ db'.version_info_values = db.version_info_values
          /\ Cardinality(db'.files) = Cardinality(db.files)
          /\ \A a, b \in db'.files :
                (a.file_id = b.file_id /\ a.path_id = b.path_id) => a = b
          /\ \A a, b \in db'.paths : a.path = b.path => a = b
          /\ {r.path : r \in db'.paths} = {r.path : r \in db.paths} ]_vars

\* a second update of the same root has run over a recorded executable
C2_Witness ==
    /\ last.prior = "ok" /\ last.result = "ok"
    /\ db.files # {} /\ db.dlls # {} /\ db.magics # {}
    /\ FileObs(last.log) # {}

(* C3: metadata ingestion (_insert_meta_entry) has been performed exactly   *)
(* once for every digest that has been observed (hashed), whatever the      *)
(* number of observations, and never for a digest that has not.             *)
C3_IngestOnce ==
    \A c \in Contents :
        hist.ingests[Md5(c)] = IF c \in hist.hashed THEN 1 ELSE 0

\* a digest ingested by an earlier update has been observed again
C3_Witness ==
    /\ last.prior = "ok" /\ last.result = "ok" /\ ~last.changed
    /\ \E i \in FileObs(last.log) :
          /\ FileAt(last.log[i]).content \in hist.hashed
          /\ hist.ingests[Md5(FileAt(last.log[i]).content)] = 1

(* C4: when update observes a file that a previous update recorded under    *)
(* another directory, where it no longer is (the file was moved), the store *)
(* afterwards holds a files row for (its digest, the new path), and its     *)
(* content is not ingested again.                                           *)
C4_RenamePreservation ==
    [][ (IsUpdate /\ last'.result = "ok") =>
          \A i \in FileObs(last'.log) :
              LET o == last'.log[i]
                  h == Md5(FileAt(o).content)
              IN  ( /\ BelowParseSize(SizeOf(FileAt(o).content))
                    /\ \E p \in DOMAIN dirs :
                          /\ p # o.path
                          /\ join(p, o.filename) \notin DOMAIN disk
                          /\ \E f \in Occurrences(db, h, p) : f.filename = o.filename )
                  => /\ Occurrences(db', h, o.path) # {}
                     /\ hist'.ingests[h] = hist.ingests[h] ]_vars

(* C5: when update observes a file whose (digest, directory path) pair the  *)
(* store already records, with a stamp other than the recorded one, then    *)
(* afterwards the store holds exactly one files row for the pair, with the  *)
(* same file_id and filename, carrying the stamp just observed.             *)
C5_RefreshInPlace ==
    [][ (IsUpdate /\ last'.result = "ok") =>
          \A i \in FileObs(last'.log) :
              LET o == last'.log[i]
                  h == Md5(FileAt(o).content)
              IN  \A f \in Occurrences(db, h, o.path) :
                     (f.filename = o.filename /\ f.stamp # FileAt(o).stamp)
                     => /\ Cardinality(Occurrences(db', h, o.path)) = 1
                        /\ \A g \in Occurrences(db', h, o.path) :
                              /\ g.stamp = FileAt(o).stamp
                              /\ g.file_id = f.file_id
                              /\ g.filename = f.filename ]_vars

(* C6: update(root) of a directory emits one directory observation for each *)
(* directory at or below root and for no other, a parent before its         *)
(* children, a directory before the files in it; when the store was empty,  *)
(* the paths recorded are exactly those directories.                        *)
C6_WalkScope ==
    (last.result = "ok" /\ isdir(last.root)) =>
        LET log == last.log
            top == Resolve(last.root)
        IN  /\ {log[i].path : i \in DirObs(log)} = Subtree(top)
            /\ \A i, j \in DirObs(log) : log[i].path = log[j].path => i = j
            /\ \A i, j \in DirObs(log) :
                  (log[i].path # log[j].path /\ log[j].path \in Subtree(log[i].path))
                  => i < j
            /\ \A j \in FileObs(log) :
                  \E i \in DirObs(log) : i < j /\ log[i].path = log[j].path
            /\ nupdates = 1 => {r.path : r \in db.paths} = Subtree(top)

(* C7: no file of size max_parse_size or more is ever hashed, ingested or   *)
(* given a hashes or files row; a file of size max_parse_size - 1 that an   *)
(* update has observed is hashed, ingested and has its hashes row.          *)
C7_SizeBound ==
    /\ \A c \in Contents :
          SizeOf(c) >= MaxParseSize =>
              /\ c \notin hist.hashed
              /\ hist.ingests[Md5(c)] = 0
              /\ \A r \in db.hashes : r.value # Md5(c)
    /\ \A f \in db.files : f.size < MaxParseSize
    /\ (last.result = "ok" /\ ~last.changed) =>
          \A i \in FileObs(last.log) :
              LET c == FileAt(last.log[i]).content
              IN  SizeOf(c) = MaxParseSize - 1 =>
                      /\ c \in hist.hashed
                      /\ hist.ingests[Md5(c)] = 1
                      /\ \E r \in db.hashes : r.value = Md5(c)

\* one update has observed a file at the bound and a file just below it
C7_Witness ==
    /\ last.result = "ok" /\ ~last.changed
    /\ \E i, j \in FileObs(last.log) :
          /\ SizeOf(FileAt(last.log[i]).content) = MaxParseSize
          /\ SizeOf(FileAt(last.log[j]).content) = MaxParseSize - 1
          /\ db.files # {}

(* C8: update(root) with a root that is not absolute raises MetaFSError,    *)
(* having observed nothing and hashed nothing, and leaves the store as it   *)
(* was.                                                                     *)
C8_RelativeRootRejected ==
    [][ (IsUpdate /\ ~isabs(last'.root)) =>
          /\ last'.result = "MetaFSError"
          /\ last'.log = <<>>
          /\ hist' = hist
          /\ db' = db ]_vars

\* update was called with a relative root that names a directory, on a
\* store that already holds rows
C8_Witness ==
    /\ last.result = "MetaFSError"
    /\ ~isabs(last.root) /\ isdir(last.root)
    /\ db.paths # {} /\ db.files # {}

(* C9: update(root) with root an absolute path to a readable regular file   *)
(* below max_parse_size, on a store without a paths row for its parent      *)
(* directory, returns without error having emitted that one file            *)
(* observation, and the store holds the files row of the file (and still no *)
(* paths row for the parent).                                               *)
C9_SingleFileRoot ==
    ( /\ last.result # "none" /\ ~last.changed
      /\ isabs(last.root) /\ ~isdir(last.root) /\ isfile(last.root)
      /\ BelowParseSize(SizeOf(disk[Resolve(last.root)].content))
      /\ disk[Resolve(last.root)].readable
      /\ \A r \in db.paths : r.path # dirname(last.root) )
    => /\ last.result = "ok"
       /\ last.log = <<Observation("file", dirname(last.root), basename(last.root))>>
       /\ \E f \in db.files :
             /\ f.filename = basename(last.root)
             /\ \E r \in db.hashes :
                   r.id = f.file_id /\ r.value = Md5(disk[Resolve(last.root)].content)

(* C10: when an update that was killed between two commits is followed by   *)
(* a complete update of the same root on the unchanged tree, every file     *)
(* below the size bound that was observed has its hashes row, its peheaders *)
(* row if it is an executable, and its files row, and no dedup table holds  *)
(* a value twice.                                                           *)
C10_CrashResilience ==
    (last.prior = "killed" /\ last.result = "ok" /\ ~last.changed) =>
        /\ NoValueTwice(db)
        /\ \A i \in FileObs(last.log) :
              LET o == last.log[i]
                  c == FileAt(o).content
              IN  BelowParseSize(SizeOf(c)) =>
                      /\ \E r \in db.hashes : r.value = Md5(c)
                      /\ StartsWithPE32(from_file(c)) =>
                            \E r \in db.hashes, x \in db.peheaders :
                                r.value = Md5(c) /\ x.file_id = r.id
                      /\ Occurrences(db, Md5(c), o.path) # {}

----------------------------------------------------------------------------
(* What the properties read off the store's dedup tables *)

DedupTables == ResolverTables \cup {"functions"}

\* the value a row of a dedup table stands for, and its identifier
RowValue(t, r) == IF t = "functions" THEN r.name ELSE r.value

RowId(t, r) == IF t = "functions" THEN r.function_id ELSE r.id

\* some store method has just returned
IsCall == call'.n = call.n + 1

(* C11: in every dedup table (hashes, magics, dlls, functions,              *)
(* version_info_fields, version_info_values), after any sequence of calls,  *)
(* a resolver returns the identifier of the one row holding the value it    *)
(* was given, a value that was already stored keeps its row and identifier  *)
(* (so resolving it again returns the same identifier), no row is ever      *)
(* removed, and no two rows share a value or an identifier.                 *)
C11_ResolverStability ==
    [][IsCall =>
        /\ \A t \in DedupTables :
              /\ db[t] \subseteq db'[t]
              /\ \A a, b \in db'[t] :
                    (RowValue(t, a) = RowValue(t, b) \/ RowId(t, a) = RowId(t, b))
                        => a = b
        /\ call'.op \in {"resolve", "function"} =>
              LET t == call'.table
                  v == IF call'.op = "function" THEN call'.name ELSE call'.value
                  old == {r \in db[t] : RowValue(t, r) = v}
                  new == {r \in db'[t] : RowValue(t, r) = v}
              IN  /\ Cardinality(new) = 1
                  /\ \A r \in new : RowId(t, r) = call'.id
                  /\ old # {} => db'[t] = db[t]
                  /\ old = {} => db'[t] = db[t] \cup new
      ]_vars

\* a resolver was given a value stored before another one and returned the
\* first row's identifier
C11_Witness ==
    /\ call.op = "resolve"
    /\ call.id = 1
    /\ Cardinality(db[call.table]) = 2
    /\ \E r \in db[call.table] : r.value = call.value /\ r.id = 1

----------------------------------------------------------------------------
(* What the properties read off one call of update: the step from the state *)
(* before the call (db) to the state after it (db', last')                  *)

\* the file observations of the call whose file exists and can be read
ReadObs == {i \in FileObs(last'.log) :
               /\ isfile(join(last'.log[i].path, last'.log[i].filename))
               /\ FileAt(last'.log[i]).readable}

\* the file observations of the call whose file exists and cannot be read
UnreadableObs == {i \in FileObs(last'.log) :
                     /\ isfile(join(last'.log[i].path, last'.log[i].filename))
                     /\ ~FileAt(last'.log[i]).readable}

\* observation i is the first one ever to read its content
FirstSeen(i) ==
    /\ i \in ReadObs
    /\ \A r \in db.hashes : r.value # Md5(FileAt(last'.log[i]).content)
    /\ \A j \in ReadObs :
          j < i => FileAt(last'.log[j]).content # FileAt(last'.log[i]).content

\* the store d holds structural rows for the content with identifier id
Structural(d, id) ==
    \/ \E r \in d.peheaders : r.file_id = id
    \/ \E t \in {"sections", "file_import_dlls", "file_export_dlls",
                 "file_import_functions", "file_export_functions",
                 "file_version_info", "anomalies"} :
          \E k \in 1..Len(d[t]) : d[t][k].file_id = id

\* the store d holds the digest h, no structural row for it, the magics row
\* of label and a files row for observation o that carries the label
PlainRecord(d, h, o, label) ==
    /\ \E r \in d.hashes : r.value = h /\ ~Structural(d, r.id)
    /\ \E m \in d.magics :
          /\ m.value = label
          /\ \E f \in Occurrences(d, h, o.path) :
                f.filename = o.filename /\ f.magic_id = m.id

(* C12: when update reads a content the store does not know, libmagic       *)
(* labels it PE32 and peparser raises PEFormatError, the call returns       *)
(* without error and the store holds the hashes row of the content, the     *)
(* magics row of the label, the files row of the file carrying that label,  *)
(* and no structural row for the content (peheaders, sections, imports,     *)
(* exports, version info, anomalies).                                       *)
C12_MalformedExecutable ==
    [][IsUpdate =>
        \A i \in FileObs(last'.log) :
            (/\ FirstSeen(i)
             /\ last'.file_magic = "ok"
             /\ StartsWithPE32(from_file(FileAt(last'.log[i]).content))
             /\ PEFormatError(FileAt(last'.log[i]).content))
            => /\ last'.result = "ok"
               /\ PlainRecord(db', Md5(FileAt(last'.log[i]).content), last'.log[i],
                              from_file(FileAt(last'.log[i]).content))
      ]_vars

(* C13: when hashing a file raises IOError during update, the call returns  *)
(* without error, nothing is written for that file (every new hashes row    *)
(* and every new or changed files row belongs to a file that could be read, *)
(* and with no readable file only paths changes), and a walk still observes *)
(* every directory and every file below its top and records the content of  *)
(* every file it can read.                                                  *)
C13_UnreadableFile ==
    [][(IsUpdate /\ UnreadableObs # {}) =>
        LET log == last'.log
            top == dirname(last'.root)
        IN  /\ last'.result = "ok"
            /\ \A r \in db'.hashes \ db.hashes :
                  \E i \in ReadObs : r.value = Md5(FileAt(log[i]).content)
            /\ \A f \in db'.files \ db.files :
                  \E i \in ReadObs : Occurrences(db', Md5(FileAt(log[i]).content),
                                                 log[i].path) = {f}
            /\ ReadObs = {} => [db' EXCEPT !.paths = {}, !.seq = 0]
                                 = [db EXCEPT !.paths = {}, !.seq = 0]
            /\ isdir(last'.root) =>
                  /\ \A d \in Subtree(Resolve(top)) :
                        \E j \in DirObs(log) : Resolve(log[j].path) = d
                  /\ \A q \in DOMAIN disk :
                        dirname(q) \in Subtree(Resolve(top)) =>
                            \E j \in FileObs(log) :
                                Resolve(join(log[j].path, log[j].filename)) = q
            /\ \A i \in ReadObs :
                  \E r \in db'.hashes : r.value = Md5(FileAt(log[i]).content)
      ]_vars

\* a walk has met an unreadable file and recorded the readable file after it
C13_Witness ==
    /\ last.result = "ok"
    /\ ~last.changed
    /\ <<"/", "data", "a.bin">> \in DOMAIN disk
    /\ <<"/", "data", "b.bin">> \in DOMAIN disk
    /\ ~disk[<<"/", "data", "a.bin">>].readable
    /\ disk[<<"/", "data", "b.bin">>].readable
    /\ disk[<<"/", "data", "a.bin">>].content # disk[<<"/", "data", "b.bin">>].content
    /\ Len(last.log) > 2
    /\ Cardinality(db.hashes) = 1
    /\ \E f \in db.files : f.filename = "b.bin"

(* C14: when update reads a content the store does not know and the type    *)
(* detector is absent or raises, the call returns without error and the     *)
(* store holds the hashes row of the content, the magics row "Unknown", the *)
(* files row of the file carrying that label, and no structural row for the *)
(* content.                                                                 *)
C14_DetectorFallback ==
    [][IsUpdate =>
        \A i \in FileObs(last'.log) :
            (FirstSeen(i) /\ last'.file_magic \in {"none", "raises"})
            => /\ last'.result = "ok"
               /\ PlainRecord(db', Md5(FileAt(last'.log[i]).content), last'.log[i],
                              "Unknown")
      ]_vars

\* the key-less table t of the store d only gained rows on the way to e
Extended(d, e, t) == Len(d[t]) <= Len(e[t]) /\ SubSeq(e[t], 1, Len(d[t])) = d[t]

(* C15: no step of the program or of its environment (a file removed or     *)
(* rewritten, a directory removed, an update) removes anything recorded:    *)
(* every hashes row stays, every path value stays in paths, every files row *)
(* keeps a row under its key (content, directory: file_id, path_id), and    *)
(* every row of the per-content metadata tables and of the tables they      *)
(* reference stays.                                                         *)
C15_NoDeletion ==
    [][/\ db.hashes \subseteq db'.hashes
       /\ \A r \in db.paths : \E q \in db'.paths : q.path = r.path
       /\ \A f \in db.files :
             \E g \in db'.files : g.file_id = f.file_id /\ g.path_id = f.path_id
       /\ \A t \in {"peheaders", "magics", "dlls", "functions", "version_info_fields",
                    "version_info_values"} : db[t] \subseteq db'[t]
       /\ \A t \in {"sections", "file_import_dlls", "file_export_dlls",
                    "file_import_functions", "file_export_functions",
                    "file_version_info", "anomalies"} : Extended(db, db', t)
      ]_vars

\* an update has run after the only file of a recorded content disappeared
\* or was rewritten, and the rows of the content are still there
C15_Witness ==
    /\ last.result = "ok"
    /\ ~last.changed
    /\ nupdates = 2
    /\ \E r \in db.hashes :
          /\ \A p \in DOMAIN disk : Md5(disk[p].content) # r.value
          /\ \E f \in db.files : f.file_id = r.id
          /\ Structural(db, r.id)

----------------------------------------------------------------------------
(* What the properties read off the ingestion of one header record *)

KeylessTables == {"sections", "file_import_dlls", "file_export_dlls",
                  "file_import_functions", "file_export_functions",
                  "file_version_info", "anomalies"}

(* C16: after the ingestion of any header record, none of the tables        *)
(* sections, file_import_dlls, file_export_dlls, file_import_functions,     *)
(* file_export_functions, file_version_info and anomalies holds two rows    *)
(* for the same content and the same referenced value (for sections: the    *)
(* same section name).                                                      *)
C16_SetSemantics ==
    \A t \in KeylessTables :
        \A i, j \in 1..Len(db[t]) :
            (IF t = "sections"
             THEN db[t][i].file_id = db[t][j].file_id /\ db[t][i].name = db[t][j].name
             ELSE db[t][i] = db[t][j])
            => i = j

(* C17: _get_function_id(name, library) returns the identifier of a         *)
(* functions row that holds that name and that library: the same pair gets  *)
(* the same row every time, and two pairs that differ in the name or in the *)
(* library get two rows, each recording its own library.                    *)
C17_SymbolIdentity ==
    [][(IsCall /\ call'.op = "function") =>
        /\ \E r \in db'.functions :
              /\ r.function_id = call'.id
              /\ r.name = call'.name
              /\ r.from_dll_id = call'.dll_id
        /\ \A a, b \in db'.functions :
              (a.name = b.name /\ a.from_dll_id = b.from_dll_id) => a = b
        /\ db.functions \subseteq db'.functions
      ]_vars

\* the value of a hexadecimal digit
DigitValue(ch) == CHOOSE k \in 0..15 : HexDigit[k + 1] = ch

\* name is "0x" followed by exactly four hexadecimal digits that spell ordinal
IsFallback(name, ordinal) ==
    /\ Len(name) = 5
    /\ name[1] = "0x"
    /\ \A k \in 2..5 : \E d \in 1..16 : HexDigit[d] = name[k]
    /\ ordinal = DigitValue(name[2]) * 4096 + DigitValue(name[3]) * 256
                   + DigitValue(name[4]) * 16 + DigitValue(name[5])

\* the functions rows that the store d links to the content file_id in the
\* link table t and that carry the name of the entry e
LinkedRows(d, t, file_id, e) ==
    {r \in d.functions :
        /\ IF e.name = <<>> THEN IsFallback(r.name, e.ordinal) ELSE r.name = e.name
        /\ \E k \in 1..Len(d[t]) :
              d[t][k] = [file_id |-> file_id, function_id |-> r.function_id]}

\* the entries of the export list and of every import list of a record, each
\* with the link table it belongs to
Entries(rec) ==
    UNION {{[t |-> "file_export_functions", e |-> rec.exports[x].functions[y]] :
               y \in 1..Len(rec.exports[x].functions)} : x \in 1..Len(rec.exports)}
    \cup
    UNION {{[t |-> "file_import_functions", e |-> rec.imports[x].functions[y]] :
               y \in 1..Len(rec.imports[x].functions)} : x \in 1..Len(rec.imports)}

(* C18: after the ingestion of a header record, every entry of its export   *)
(* list and of its import lists is linked to the content in the export (or  *)
(* import) function link table through a functions row; the row of an entry *)
(* without a name is named "0x" and the four hexadecimal digits of its      *)
(* ordinal, and entries without a name of one list whose ordinals differ    *)
(* have different functions rows.                                           *)
C18_OrdinalFallback ==
    [][(IsCall /\ call'.op = "ingest") =>
        LET rec == Record(call'.record)
        IN  /\ \A x \in Entries(rec) : LinkedRows(db', x.t, call'.id, x.e) # {}
            /\ \A x, y \in Entries(rec) :
                  (/\ x.t = y.t
                   /\ x.e.name = <<>>
                   /\ y.e.name = <<>>
                   /\ x.e.ordinal # y.e.ordinal)
                  => LinkedRows(db', x.t, call'.id, x.e)
                        \cap LinkedRows(db', y.t, call'.id, y.e) = {}
      ]_vars

\* a record whose exports are the ordinals 1 and 2 and whose imports are the
\* ordinals 1 and 26 has been ingested
C18_Witness ==
    /\ call.op = "ingest"
    /\ call.record = "ordinals"
    /\ \A name \in { <<"0x", "0", "0", "0", "1">>, <<"0x", "0", "0", "0", "2">>,
                    <<"0x", "0", "0", "1", "a">> } :
          \E r \in db.functions : r.name = name
    /\ Cardinality({k \in 1..Len(db.file_export_functions) :
                       db.file_export_functions[k].file_id = call.id}) = 2
    /\ Cardinality({k \in 1..Len(db.file_import_functions) :
                       db.file_import_functions[k].file_id = call.id}) = 2

----------------------------------------------------------------------------
(* C19: in every state every files row refers to a row of paths by its      *)
(* path_id and to a row of hashes by its file_id.                           *)
C19_ReferentialIntegrity ==
    \A f \in db.files :
        /\ \E r \in db.paths : r.path_id = f.path_id
        /\ \E r \in db.hashes : r.id = f.file_id

(* C20: after the first update of a tree that has not changed since, every  *)
(* files row describes one file that the call observed: the directory of    *)
(* its path_id holds a file with the row's filename, whose content has the  *)
(* row's digest, whose size is the row's size and whose times are the row's *)
(* times.                                                                   *)
C20_OccurrenceCoherence ==
    (last.result = "ok" /\ ~last.changed /\ nupdates = 1) =>
        \A f \in db.files :
            \E r \in db.paths, h \in db.hashes, i \in FileObs(last.log) :
                /\ r.path_id = f.path_id
                /\ h.id = f.file_id
                /\ last.log[i].path = r.path
                /\ last.log[i].filename = f.filename
                /\ Md5(FileAt(last.log[i]).content) = h.value
                /\ SizeOf(FileAt(last.log[i]).content) = f.size
                /\ FileAt(last.log[i]).stamp = f.stamp

====
